---- MODULE Spec2Model ----
(***************************************************************************)
(* A model of erd_viz.py: one execution of the Streamlit script over a     *)
(* schema catalog.  The catalog (df) is read once; the relationship set    *)
(* (connections_df) is inferred from it; the sidebar widgets narrow the    *)
(* set to one relationship; two graphs are built from the result.          *)
(***************************************************************************)
EXTENDS Integers, Sequences, FiniteSets, TLC

\* ---------------------------------------------------------------- bounds
\* The longest catalog (number of CSV rows) that is explored.
MaxRows == 4

\* The table and column names the CSV rows are drawn from.  Every table can
\* have every column as a uniqueidentifier; the tables of IntTables can have
\* the columns of IntColumns as an int as well (or instead).
Tables == {"Orders", "Customers", "Regions"}
Columns == {"CustomerID", "RegionID"}
IntTables == {"Regions"}
IntColumns == {"CustomerID"}

\* What st.selectbox returns when its option list is empty (Python's None);
\* also the value of a name the script has not assigned yet.
None == "<None>"

VARIABLES
    df,                    \* the catalog: the rows of erd_2.csv, in file order
    pc,                    \* the position of the script
    connections_df,        \* the deduplicated inferred relationships
    filter_type,           \* the radio button "Filter By"
    selected_table,        \* "Select a Table"
    selected_column,       \* "Select a Column"
    selected_table_1,      \* "Select First Table with the Column"
    selected_table_2,      \* "Select Second Table to Join"
    selected_to_table,     \* "Select To Table (Joinable Tables)"
    filtered_connections_1,\* the relationships of the first table
    joinable_tables,       \* the option list of the joinable-table selectbox
    filtered_connections,  \* the candidate relationships
    selected_row,          \* the resolved relationship
    joinable_graph,        \* the "Joinable Tables for Selected Table" graph
    graph,                 \* the "Visualize Relationship" graph
    error                  \* the exception that ended the script, if any

vars == <<df, pc, connections_df, filter_type, selected_table, selected_column,
          selected_table_1, selected_table_2, selected_to_table,
          filtered_connections_1, joinable_tables, filtered_connections,
          selected_row, joinable_graph, graph, error>>

\* ------------------------------------------------------- sequence helpers
Range(s) == {s[i] : i \in 1..Len(s)}

\* pandas drop_duplicates() / unique(): keep the first occurrence of every
\* value, in order of appearance.
RECURSIVE KeepFirst(_, _)
KeepFirst(s, seen) ==
    IF s = <<>> THEN <<>>
    ELSE IF Head(s) \in seen THEN KeepFirst(Tail(s), seen)
         ELSE <<Head(s)>> \o KeepFirst(Tail(s), seen \cup {Head(s)})

\* drop_duplicates left out: every appended entry is kept.
DropDuplicatesKeepAll(s) == s

drop_duplicates(s) == KeepFirst(s, {})

unique(s) == KeepFirst(s, {})

\* The column `name` of a frame, as the sequence of its values.
Col(frame, name) == [i \in 1..Len(frame) |-> frame[i][name]]

\* --------------------------------------------------------------- catalog
Row(t, c, d) == [Table |-> t, Column |-> c, DataType |-> d]

Rows ==
    {Row(t, c, "uniqueidentifier") : t \in Tables, c \in Columns}
        \cup {Row(t, c, "int") : t \in IntTables, c \in IntColumns}

Catalogs == UNION {[1..n -> Rows] : n \in 0..MaxRows}

\* ------------------------------------------------- relationship inference
\* The type filter left out: every row is a candidate.
DfAllTypes == df

\* line 19: the rows whose Data Type is uniqueidentifier
df_uniqueidentifier ==
    SelectSeq(df, LAMBDA r : r.DataType = "uniqueidentifier")

\* The test Table != row['Table'] left out.
MatchesAnyTable(row, dfu) ==
    SelectSeq(dfu, LAMBDA m : m.Column = row.Column)

\* Only tables that first appear after the row's table match: one direction
\* per pair of tables.
MatchesLaterTable(row, dfu) ==
    LET first(t) == CHOOSE i \in 1..Len(dfu) :
                        /\ dfu[i].Table = t
                        /\ \A j \in 1..(i - 1) : dfu[j].Table # t
    IN  SelectSeq(dfu, LAMBDA m : /\ m.Column = row.Column
                                  /\ m.Table # row.Table
                                  /\ first(m.Table) > first(row.Table))

\* line 25: the uniqueidentifier rows of other tables with the same column
matches(row, dfu) ==
    SelectSeq(dfu, LAMBDA m : m.Column = row.Column /\ m.Table # row.Table)

\* lines 27-32: the relationship appended for a row and one of its matches
Connection(row, match) ==
    [from_table  |-> row.Table,
     from_column |-> row.Column,
     to_table    |-> match.Table,
     to_column   |-> match.Column]

\* lines 22-32: the list `connections`, in the order it is appended to
RECURSIVE ConnectionsFrom(_, _)
ConnectionsFrom(rows, dfu) ==
    IF rows = <<>> THEN <<>>
    ELSE LET row == Head(rows)
             ms  == matches(row, dfu)
         IN  [i \in 1..Len(ms) |-> Connection(row, ms[i])]
                 \o ConnectionsFrom(Tail(rows), dfu)

connections == ConnectionsFrom(df_uniqueidentifier, df_uniqueidentifier)

\* line 35
InferredConnections == drop_duplicates(connections)

\* ------------------------------------------------------------ the script
NoRow == [from_table |-> None, from_column |-> None,
          to_table |-> None, to_column |-> None]

NoGraph == [node |-> <<>>, edge |-> <<>>]

\* The values a selectbox can return: any of its options, or None when it
\* has none.
Options(opts) == IF opts = <<>> THEN {None} ELSE Range(opts)

Init ==
    /\ df \in Catalogs
    /\ pc = "load"
    /\ connections_df = <<>>
    /\ filter_type = None
    /\ selected_table = None
    /\ selected_column = None
    /\ selected_table_1 = None
    /\ selected_table_2 = None
    /\ selected_to_table = None
    /\ filtered_connections_1 = <<>>
    /\ joinable_tables = <<>>
    /\ filtered_connections = <<>>
    /\ selected_row = NoRow
    /\ joinable_graph = NoGraph
    /\ graph = NoGraph
    /\ error = None

\* lines 18-35
InferRelationships ==
    /\ pc = "load"
    /\ connections_df' = InferredConnections
    /\ pc' = "filter"
    /\ UNCHANGED <<df, filter_type, selected_table, selected_column,
                   selected_table_1, selected_table_2, selected_to_table,
                   filtered_connections_1, joinable_tables,
                   filtered_connections, selected_row, joinable_graph, graph,
                   error>>

\* lines 50, 65: the relationships with `table` at either end
by_table(frame, table) ==
    SelectSeq(frame, LAMBDA r : r.from_table = table \/ r.to_table = table)

\* lines 66, 84: the distinct to_table values of a frame
to_tables(frame) == unique(Col(frame, "to_table"))

\* lines 96, 103: the display key of a relationship
display_key(row) ==
    row.from_table \o " (" \o row.from_column \o ") -> "
        \o row.to_table \o " (" \o row.to_column \o ")"

\* lines 147, 157: an edge label
label(a, b) == a \o " → " \o b

\* lines 42, 79-80: "None"
FilterNone ==
    /\ pc = "filter"
    /\ filter_type' = "None"
    /\ filtered_connections' = connections_df
    /\ pc' = "viewer"
    /\ UNCHANGED <<df, connections_df, selected_table, selected_column,
                   selected_table_1, selected_table_2, selected_to_table,
                   filtered_connections_1, joinable_tables, selected_row,
                   joinable_graph, graph, error>>

\* lines 42, 44-50: "Table Name".  With no relationship at all,
\* pd.DataFrame([]) has no columns and connections_df['from_table'] raises
\* KeyError.
FilterByTableName ==
    /\ pc = "filter"
    /\ filter_type' = "Table Name"
    /\ \E t \in Options(unique(Col(df, "Table"))) :
        /\ selected_table' = t
        /\ IF connections_df = <<>>
           THEN /\ pc' = "crashed"
                /\ error' = "KeyError"
                /\ UNCHANGED filtered_connections
           ELSE /\ filtered_connections' = by_table(connections_df, t)
                /\ pc' = "to_table"
                /\ UNCHANGED error
    /\ UNCHANGED <<df, connections_df, selected_column, selected_table_1,
                   selected_table_2, selected_to_table,
                   filtered_connections_1, joinable_tables, selected_row,
                   joinable_graph, graph>>

\* lines 82-90: "Select To Table (Joinable Tables)"
SelectToTable ==
    /\ pc = "to_table"
    /\ joinable_tables' = to_tables(filtered_connections)
    /\ \E u \in Options(joinable_tables') :
        /\ selected_to_table' = u
        /\ filtered_connections' =
               SelectSeq(filtered_connections, LAMBDA r : r.to_table = u)
    /\ pc' = "viewer"
    /\ UNCHANGED <<df, connections_df, filter_type, selected_table,
                   selected_column, selected_table_1, selected_table_2,
                   filtered_connections_1, selected_row, joinable_graph,
                   graph, error>>

\* lines 42, 51-56: "Column Name"
FilterByColumnName ==
    /\ pc = "filter"
    /\ filter_type' = "Column Name"
    /\ \E c \in Options(unique(Col(df_uniqueidentifier, "Column"))) :
        selected_column' = c
    /\ pc' = "first_table"
    /\ UNCHANGED <<df, connections_df, selected_table, selected_table_1,
                   selected_table_2, selected_to_table,
                   filtered_connections_1, joinable_tables,
                   filtered_connections, selected_row, joinable_graph, graph,
                   error>>

\* line 58
tables_with_column ==
    unique(Col(SelectSeq(df_uniqueidentifier,
                         LAMBDA r : r.Column = selected_column), "Table"))

\* lines 57-66: "Select First Table with the Column"; KeyError as at line 50
SelectFirstTable ==
    /\ pc = "first_table"
    /\ \E t \in Options(tables_with_column) :
        /\ selected_table_1' = t
        /\ IF connections_df = <<>>
           THEN /\ pc' = "crashed"
                /\ error' = "KeyError"
                /\ UNCHANGED <<filtered_connections_1, joinable_tables>>
           ELSE /\ filtered_connections_1' = by_table(connections_df, t)
                /\ joinable_tables' = to_tables(filtered_connections_1')
                /\ pc' = "second_table"
                /\ UNCHANGED error
    /\ UNCHANGED <<df, connections_df, filter_type, selected_table,
                   selected_column, selected_table_2, selected_to_table,
                   filtered_connections, selected_row, joinable_graph, graph>>

\* lines 68-78: "Select Second Table to Join"
SelectSecondTable ==
    /\ pc = "second_table"
    /\ \E t \in Options(joinable_tables) :
        /\ selected_table_2' = t
        /\ filtered_connections' =
               SelectSeq(filtered_connections_1,
                         LAMBDA r : r.to_table = t \/ r.from_table = t)
    /\ pc' = "viewer"
    /\ UNCHANGED <<df, connections_df, filter_type, selected_table,
                   selected_column, selected_table_1, selected_to_table,
                   filtered_connections_1, joinable_tables, selected_row,
                   joinable_graph, graph, error>>

\* lines 92-111: "Select a Relationship".  With no candidate the selectbox
\* returns None, no row has that key, and .iloc[0] of the empty selection
\* raises IndexError; on the column-less frame of an empty relationship set
\* ("None" mode) the lookup fails as well, with an exception whose type is
\* left open.
SelectRelationship ==
    /\ pc = "viewer"
    /\ IF filtered_connections = <<>>
       THEN /\ pc' = "crashed"
            /\ error' = IF connections_df = <<>> THEN "Exception"
                                                 ELSE "IndexError"
            /\ UNCHANGED selected_row
       ELSE /\ \E selected_relationship \in
                    Options([i \in 1..Len(filtered_connections) |->
                                 display_key(filtered_connections[i])]) :
                selected_row' =
                    SelectSeq(filtered_connections,
                              LAMBDA r : display_key(r)
                                             = selected_relationship)[1]
            /\ pc' = "joinable_graph"
            /\ UNCHANGED error
    /\ UNCHANGED <<df, connections_df, filter_type, selected_table,
                   selected_column, selected_table_1, selected_table_2,
                   selected_to_table, filtered_connections_1,
                   joinable_tables, filtered_connections, joinable_graph,
                   graph>>

\* lines 113-125: the joinable-tables graph; `selected_table` is a name of
\* the script only in "Table Name" mode
VisualizeJoinableTables ==
    /\ pc = "joinable_graph"
    /\ joinable_graph' =
           IF filter_type = "Table Name"
           THEN [node |-> <<selected_table>> \o joinable_tables,
                 edge |-> [i \in 1..Len(joinable_tables) |->
                              [tail  |-> selected_table,
                               head  |-> joinable_tables[i],
                               label |-> "joins"]]]
           ELSE NoGraph
    /\ pc' = "relationship_graph"
    /\ UNCHANGED <<df, connections_df, filter_type, selected_table,
                   selected_column, selected_table_1, selected_table_2,
                   selected_to_table, filtered_connections_1,
                   joinable_tables, filtered_connections, selected_row,
                   graph, error>>

\* The filter taken on the to_table column instead of from_table.
DownstreamByToTable(to_table) ==
    SelectSeq(connections_df, LAMBDA r : r.to_table = to_table)

\* line 150
downstream_connections(to_table) ==
    SelectSeq(connections_df, LAMBDA r : r.from_table = to_table)

\* lines 139-157: the relationship graph
VisualizeRelationship ==
    /\ pc = "relationship_graph"
    /\ LET from_table   == selected_row.from_table
           from_column  == selected_row.from_column
           to_table     == selected_row.to_table
           to_column    == selected_row.to_column
           downstream   == downstream_connections(to_table)
       IN  graph' =
               [node |-> <<from_table, to_table>>
                             \o Col(downstream, "to_table"),
                edge |-> <<[tail  |-> from_table,
                            head  |-> to_table,
                            label |-> label(from_column, to_column)]>>
                         \o [i \in 1..Len(downstream) |->
                                [tail  |-> to_table,
                                 head  |-> downstream[i].to_table,
                                 label |-> label(to_column,
                                                 downstream[i].to_column)]]]
    /\ pc' = "done"
    /\ UNCHANGED <<df, connections_df, filter_type, selected_table,
                   selected_column, selected_table_1, selected_table_2,
                   selected_to_table, filtered_connections_1,
                   joinable_tables, filtered_connections, selected_row,
                   joinable_graph, error>>

\* A widget interaction reruns the script from the top; load_data() is
\* cached (lines 6-11), every other name is rebuilt.
Rerun ==
    /\ pc \in {"done", "crashed"}
    /\ pc' = "load"
    /\ connections_df' = <<>>
    /\ filter_type' = None
    /\ selected_table' = None
    /\ selected_column' = None
    /\ selected_table_1' = None
    /\ selected_table_2' = None
    /\ selected_to_table' = None
    /\ filtered_connections_1' = <<>>
    /\ joinable_tables' = <<>>
    /\ filtered_connections' = <<>>
    /\ selected_row' = NoRow
    /\ joinable_graph' = NoGraph
    /\ graph' = NoGraph
    /\ error' = None
    /\ UNCHANGED df

Next ==
    \/ InferRelationships
    \/ FilterNone
    \/ FilterByTableName
    \/ SelectToTable
    \/ FilterByColumnName
    \/ SelectFirstTable
    \/ SelectSecondTable
    \/ SelectRelationship
    \/ VisualizeJoinableTables
    \/ VisualizeRelationship
    \/ Rerun

Spec == Init /\ [][Next]_vars

\* ================================================================ claims
Rel(a, c, b, d) ==
    [from_table |-> a, from_column |-> c, to_table |-> b, to_column |-> d]

\* The tables in which column c appears with the identifier type.
IdTables(c) == {t \in Tables : Row(t, c, "uniqueidentifier") \in Range(df)}

\* The entries of the relationship set with column c.
EntriesOf(c) ==
    SelectSeq(connections_df,
              LAMBDA r : r.from_column = c \/ r.to_column = c)

HasDuplicateRow == \E i, j \in 1..Len(df) : i # j /\ df[i] = df[j]

Resolving == {"viewer", "joinable_graph", "relationship_graph", "done"}

\* C1: once the relationship set is inferred, for every column c that is a
\* uniqueidentifier in n >= 2 distinct tables, the set holds exactly n*(n-1)
\* entries with column c: one for every ordered pair of distinct tables
\* among them, and no other, whatever rows the catalog repeats.
C1_CompletePerSharedColumn ==
    pc # "load" =>
        \A c \in Columns :
            LET T == IdTables(c)
                n == Cardinality(T)
            IN  n >= 2 =>
                    /\ Len(EntriesOf(c)) = n * (n - 1)
                    /\ Range(EntriesOf(c)) =
                           {Rel(p[1], c, p[2], c) :
                                p \in {q \in T \X T : q[1] # q[2]}}

\* A column shared by three tables in a catalog that repeats a row.
C1_Witness ==
    /\ pc # "load"
    /\ HasDuplicateRow
    /\ \E c \in Columns : Cardinality(IdTables(c)) = 3
                              /\ Len(EntriesOf(c)) = 6

\* C2: no entry of the relationship set has from_table = to_table.
C2_NoSelfRelationship ==
    \A i \in 1..Len(connections_df) :
        connections_df[i].from_table # connections_df[i].to_table

\* Relationships inferred from a catalog in which a table lists the same
\* identifier column twice.
C2_Witness ==
    /\ connections_df # <<>>
    /\ \E i, j \in 1..Len(df) :
           /\ i # j
           /\ df[i] = df[j]
           /\ df[i].DataType = "uniqueidentifier"
           /\ \E r \in Range(connections_df) :
                  r.from_table = df[i].Table /\ r.from_column = df[i].Column

\* The to_table values of the relationships that lead from `table`.
DirectedFrom(table) ==
    {r.to_table : r \in {x \in Range(by_table(connections_df, table)) :
                             x.from_table = table}}

\* C3: the joinable tables offered for a table T ("Select To Table" in Table
\* Name mode, "Select Second Table" in Column Name mode) are among the
\* to_table values of the relationships of T that lead from T.
C3_JoinableFromIsDirectional ==
    /\ filter_type = "Table Name" =>
           Range(joinable_tables) \subseteq DirectedFrom(selected_table)
    /\ filter_type = "Column Name" =>
           Range(joinable_tables) \subseteq DirectedFrom(selected_table_1)

\* C4: in Table Name mode with table T selected and second table U picked from
\* the joinable choices, every candidate of the final step, and the resolved
\* relationship, leads from T to U.
C4_ByTableResolvesFromSelectedToSecond ==
    (filter_type = "Table Name" /\ pc \in Resolving) =>
        /\ \A r \in Range(filtered_connections) :
               r.from_table = selected_table /\ r.to_table = selected_to_table
        /\ pc # "viewer" =>
               /\ selected_row.from_table = selected_table
               /\ selected_row.to_table = selected_to_table

\* C5: in Column Name mode with column c selected, every candidate of the
\* final step, and the resolved relationship, has c as its from_column or its
\* to_column, and every second table offered is joined to the first table by
\* a relationship on c.  (The first table itself, which the list offers as
\* well, see C3, is left aside here.)
C5_ByColumnRestrictedToColumn ==
    (filter_type = "Column Name" /\ pc \in Resolving) =>
        /\ \A r \in Range(filtered_connections) :
               r.from_column = selected_column \/ r.to_column = selected_column
        /\ pc # "viewer" =>
               \/ selected_row.from_column = selected_column
               \/ selected_row.to_column = selected_column
        /\ \A u \in Range(joinable_tables) \ {selected_table_1} :
               \E r \in Range(connections_df) :
                   /\ r.from_column = selected_column
                   /\ r.to_column = selected_column
                   /\ {r.from_table, r.to_table} = {selected_table_1, u}

\* C6: a selection with no joinable partner (an empty joinable list in Table
\* Name or Column Name mode) never goes on to take the first row of an empty
\* candidate set.
C6_EmptyJoinableNeverIndexed ==
    (filter_type \in {"Table Name", "Column Name"} /\ joinable_tables = <<>>)
        => ~(pc = "crashed" /\ error = "IndexError")

\* The relationships that lead from the resolved relationship's to_table, in
\* the order of the relationship set.
DownstreamRows ==
    SelectSeq(connections_df,
              LAMBDA r : r.from_table = selected_row.to_table)

\* C7: in the relationship graph, the edge of every downstream relationship
\* carries that relationship's own column pair, from_column → to_column.
C7_DownstreamEdgeLabelledWithOwnColumns ==
    pc = "done" =>
        \A i \in 1..Len(DownstreamRows) :
            graph.edge[i + 1].label =
                DownstreamRows[i].from_column \o " → "
                    \o DownstreamRows[i].to_column

\* C8: the relationship graph is the seed edge from_table -> to_table followed
\* by one edge per relationship that leads from the seed's to_table, each from
\* that to_table to the relationship's to_table, and nothing else.
C8_OneHopDownstream ==
    pc = "done" =>
        LET E == graph.edge
        IN  /\ Len(E) >= 1
            /\ E[1].tail = selected_row.from_table
            /\ E[1].head = selected_row.to_table
            /\ \A i \in 2..Len(E) : E[i].tail = selected_row.to_table
            /\ [i \in 1..(Len(E) - 1) |-> E[i + 1].head]
                   = Col(DownstreamRows, "to_table")
            /\ Len(E) - 1 =
                   Cardinality({r \in Range(connections_df) :
                                    r.from_table = selected_row.to_table})

\* A graph with a downstream table, other than the seed's from_table, that
\* has a relationship of its own away from the seed's to_table: the edge a
\* second hop would have drawn.
C8_Witness ==
    /\ pc = "done"
    /\ Len(graph.edge) >= 3
    /\ \E i \in 2..Len(graph.edge) :
           \E r \in Range(connections_df) :
               /\ r.from_table = graph.edge[i].head
               /\ r.from_table # selected_row.from_table
               /\ r.to_table # selected_row.to_table

\* C9: every entry of the relationship set has from_column = to_column, and
\* both of its ends are catalog rows of type uniqueidentifier; a table that
\* has a column only with another type is never an end of a relationship on
\* that column.
C9_IdentifierTypedEqualColumns ==
    /\ \A r \in Range(connections_df) :
           /\ r.from_column = r.to_column
           /\ Row(r.from_table, r.from_column, "uniqueidentifier") \in Range(df)
           /\ Row(r.to_table, r.to_column, "uniqueidentifier") \in Range(df)
    /\ \A row \in Range(df) :
           (/\ row.DataType # "uniqueidentifier"
            /\ Row(row.Table, row.Column, "uniqueidentifier") \notin Range(df))
               => \A r \in Range(connections_df) :
                      /\ ~(r.from_table = row.Table /\ r.from_column = row.Column)
                      /\ ~(r.to_table = row.Table /\ r.to_column = row.Column)

\* Relationships on a column that a third table has as an int only.
C9_Witness ==
    /\ connections_df # <<>>
    /\ \E row \in Range(df) :
           /\ row.DataType # "uniqueidentifier"
           /\ Row(row.Table, row.Column, "uniqueidentifier") \notin Range(df)
           /\ \E r \in Range(connections_df) : r.from_column = row.Column

\* C10: the relationship set holds the reverse of every resolved relationship
\* (A, c -> B, c), so the relationship graph has, after the seed edge A -> B,
\* a back edge B -> A.
C10_BackEdgeAlwaysPresent ==
    pc = "done" =>
        /\ Rel(selected_row.to_table, selected_row.to_column,
               selected_row.from_table, selected_row.from_column)
               \in Range(connections_df)
        /\ \E i \in 2..Len(graph.edge) :
               /\ graph.edge[i].tail = selected_row.to_table
               /\ graph.edge[i].head = selected_row.from_table

\* A resolved relationship whose back edge is the only downstream edge.
C10_Witness ==
    /\ pc = "done"
    /\ selected_row # NoRow
    /\ Len(graph.edge) = 2
    /\ graph.edge[2].head = selected_row.from_table
====
